---- MODULE Spec2Model ----
(***************************************************************************)
(* PostgresStore (src/src/PostgresStore.js): a session store over one      *)
(* PostgreSQL table.  Every store method is an async function; its await   *)
(* points are the step boundaries of the model, and several callers may    *)
(* have a method in flight at the same time.  Time is one clock, counted   *)
(* in seconds, read by Date.now() in the store and by NOW() in the         *)
(* database.  A string is the sequence of its pieces: "whatsapp-" and ".zip" *)
(* are one piece each, any other character is a piece of its own.          *)
(***************************************************************************)
EXTENDS Integers, Sequences, FiniteSets, TLC

\* ---------------------------------------------------------------- bounds
MaxTime == 3

\* ------------------------------------------------------------- constants
NULL == -1

Prefix == <<"whatsapp-">>

ZipSuffix == <<".zip">>

\* the callers that may have a method in flight at the same time
Callers == {"c1", "c2"}

\* options.sessionTTL as given to the constructor, in seconds (NULL: not given)
TTLOptions == {NULL, 0, 1, 2}

\* options.sessionIdPrefix as given to the constructor (<<>>: not given)
PrefixOptions == {<<>>, <<"myapp-">>}

\* the option objects the store is constructed with: a sessionTTL or none,
\* and the README's custom configuration, a sessionIdPrefix without sessionTTL
StoreOptions ==
    {[sessionTTL |-> t, sessionIdPrefix |-> <<>>] : t \in TTLOptions}
       \cup {[sessionTTL |-> NULL, sessionIdPrefix |-> x] : x \in PrefixOptions}

\* one plain name, and one that itself begins with the namespace prefix
SessionNames == {<<"a">>, Prefix \o <<"a">>}

NoSession == <<>>

Contents == {<<7>>, <<7, 8>>}

NoFile == <<>>

NoMetadata == <<>>

MetaInputs ==
    { ("a" :> 1) @@ ("b" :> 2),
      ("b" :> 3) @@ ("c" :> 4),
      ("size" :> 0) }

SessionOps == {"sessionExists", "save", "extract", "delete",
               "getSessionMetadata", "updateSessionMetadata"}

TableOps == {"listSessions", "cleanupExpiredSessions", "getStats"}

Ops == SessionOps \cup TableOps

SchemaObjects == {"table", "idx_updated_at", "idx_expires_at"}

\* error.code of a rejected pool.query: the connection refused, or the path
\* of the server's unix-domain socket missing
DbErrorCodes == {"ECONNREFUSED", "ENOENT"}

VARIABLES
    optionPrefix,  \* options.sessionIdPrefix, as the constructor was given it
    optionTTL,     \* options.sessionTTL, as the constructor was given it
    initialized,   \* this.initialized
    sessionTTL,    \* this.sessionTTL: seconds, or NULL
    schema,        \* the schema objects that exist in the database
    table,         \* the rows of the table
    now,           \* the clock
    lastSave,      \* history: per session id, the save that wrote the row it has now
    pc,            \* per caller: where its method is
    req,           \* per caller: the method called and its arguments
    loc,           \* per caller: the method's local variables
    written,       \* per caller: the bytes extract wrote to its destination path
    res            \* per caller: what the method returned or threw

vars == <<optionPrefix, optionTTL, initialized, sessionTTL, schema, table, now, lastSave, pc, req, loc, written, res>>

\* --------------------------------------------------------- pure functions
getSessionId(session) == Prefix \o session

HasPrefix(s, pre) == Len(s) >= Len(pre) /\ SubSeq(s, 1, Len(pre)) = pre

\* the slip: every leading occurrence of the prefix is removed
RECURSIVE StripPrefixRepeated(_)
StripPrefixRepeated(id) ==
    IF HasPrefix(id, Prefix)
    THEN StripPrefixRepeated(SubSeq(id, Len(Prefix) + 1, Len(id)))
    ELSE id

\* row.session_id.replace(/^whatsapp-/, ''): one occurrence, at the start only
StripPrefix(id) ==
    IF HasPrefix(id, Prefix) THEN SubSeq(id, Len(Prefix) + 1, Len(id)) ELSE id

\* options.sessionTTL || null: undefined and 0 are falsy
TTLOption(ttl) == IF ttl = NULL \/ ttl = 0 THEN NULL ELSE ttl

\* the boundary slip: a row still counts as active at its expiry instant
IsActiveInclusive(r, t) == r.expires_at = NULL \/ r.expires_at >= t

\* expires_at IS NULL OR expires_at > NOW()
IsActive(r, t) == r.expires_at = NULL \/ r.expires_at > t

\* the boundary slip: a row is not yet expired at its expiry instant
IsExpiredStrict(r, t) == r.expires_at # NULL /\ r.expires_at < t

\* expires_at IS NOT NULL AND expires_at <= NOW()
IsExpired(r, t) == r.expires_at # NULL /\ r.expires_at <= t

\* the slip: the stored value wins on a shared key (the operands swapped)
JsonbConcatKeepsOld(m1, m2) ==
    [k \in DOMAIN m1 \cup DOMAIN m2 |-> IF k \in DOMAIN m1 THEN m1[k] ELSE m2[k]]

\* jsonb || jsonb on two objects
JsonbConcat(m1, m2) ==
    [k \in DOMAIN m1 \cup DOMAIN m2 |-> IF k \in DOMAIN m2 THEN m2[k] ELSE m1[k]]

RowsOf(tbl, id) == {r \in tbl : r.session_id = id}

ActiveRowsOf(tbl, id, t) == {r \in RowsOf(tbl, id) : IsActive(r, t)}

\* the slip: the length of the file name is taken for the size of the archive
SaveMetadataNameSize(session, sessionData, t) ==
    [originalFilename |-> session \o ZipSuffix,
     size |-> Len(session \o ZipSuffix),
     lastModified |-> t]

SaveMetadata(session, sessionData, t) ==
    [originalFilename |-> session \o ZipSuffix,
     size |-> Len(sessionData),
     lastModified |-> t]

SaveExpiresAt(ttl, t) == IF ttl # NULL THEN t + ttl ELSE NULL

\* the slip: ON CONFLICT (session_id) DO NOTHING
UpsertDoNothing(tbl, id, data, md, exp, t) ==
    IF RowsOf(tbl, id) # {}
    THEN tbl
    ELSE tbl \cup {[session_id |-> id, session_data |-> data, metadata |-> md,
                    created_at |-> t, updated_at |-> t, expires_at |-> exp]}

\* the slip: created_at listed in the SET clause of the upsert
UpsertResetsCreatedAt(tbl, id, data, md, exp, t) ==
    (tbl \ RowsOf(tbl, id))
       \cup {[session_id |-> id, session_data |-> data, metadata |-> md,
               created_at |-> t, updated_at |-> t, expires_at |-> exp]}

\* the slip: updated_at taken from the store's clock reading (lastModified)
\* and not from NOW() of the statement
UpsertClientTime(tbl, id, data, md, exp, t) ==
    IF RowsOf(tbl, id) # {}
    THEN {IF r.session_id = id
          THEN [r EXCEPT !.session_data = data, !.metadata = md,
                         !.updated_at = md.lastModified, !.expires_at = exp]
          ELSE r : r \in tbl}
    ELSE tbl \cup {[session_id |-> id, session_data |-> data, metadata |-> md,
                    created_at |-> md.lastModified, updated_at |-> md.lastModified,
                    expires_at |-> exp]}

\* INSERT ... ON CONFLICT (session_id) DO UPDATE SET ...
Upsert(tbl, id, data, md, exp, t) ==
    IF RowsOf(tbl, id) # {}
    THEN {IF r.session_id = id
          THEN [r EXCEPT !.session_data = data, !.metadata = md,
                         !.updated_at = t, !.expires_at = exp]
          ELSE r : r \in tbl}
    ELSE tbl \cup {[session_id |-> id, session_data |-> data, metadata |-> md,
                    created_at |-> t, updated_at |-> t, expires_at |-> exp]}

NoLoc == [sessionData |-> NoFile, metadata |-> NoMetadata, expiresAt |-> NULL]

\* history of a row: when the save that wrote it read the clock, the archive
\* bytes it was given, and whether updateSessionMetadata has merged into the
\* row since
NoSave == [at |-> NULL, data |-> NoFile, metaUpdated |-> FALSE]

NoRes == [kind |-> "none", val |-> "none"]

Ok(v) == [kind |-> "ok", val |-> v]

Err(msg) == [kind |-> "error", val |-> msg]

FirstStep(o) ==
    IF o = "save" THEN "read" ELSE IF o = "extract" THEN "select" ELSE "query"

\* ------------------------------------------------------------------ Init
Init ==
    /\ initialized = FALSE
    /\ \E options \in StoreOptions :
          /\ optionPrefix = options.sessionIdPrefix
          /\ optionTTL = options.sessionTTL
    /\ sessionTTL = TTLOption(optionTTL)
    /\ schema = {}
    /\ table = {}
    /\ now = 0
    /\ lastSave = [id \in {getSessionId(s) : s \in SessionNames} |-> NoSave]
    /\ pc = [p \in Callers |-> "idle"]
    /\ req = [p \in Callers |-> [op |-> "none", session |-> NoSession, metadata |-> NoMetadata]]
    /\ loc = [p \in Callers |-> NoLoc]
    /\ written = [p \in Callers |-> NoFile]
    /\ res = [p \in Callers |-> NoRes]

\* --------------------------------------------------------------- actions
\* A caller invokes a method.  A caller's next request is issued strictly
\* later than its previous reply, so the clock advances.  #ensureInitialized
\* reads the flag here: when it is set the method goes on, otherwise the
\* schema statements are sent.
Call(p) ==
    /\ pc[p] \in {"idle", "done"}
    /\ now < MaxTime
    /\ now' = now + 1
    /\ \E o \in Ops :
       \E s \in IF o \in SessionOps THEN SessionNames ELSE {NoSession} :
       \E m \in IF o = "updateSessionMetadata" THEN MetaInputs ELSE {NoMetadata} :
          /\ req' = [req EXCEPT ![p] = [op |-> o, session |-> s, metadata |-> m]]
          /\ pc' = [pc EXCEPT ![p] = IF initialized THEN FirstStep(o) ELSE "ddl"]
    /\ loc' = [loc EXCEPT ![p] = NoLoc]
    /\ written' = [written EXCEPT ![p] = NoFile]
    /\ res' = [res EXCEPT ![p] = NoRes]
    /\ UNCHANGED <<optionPrefix, optionTTL, initialized, sessionTTL, schema, table, lastSave>>

\* Shorthand for a caller's step: its position, locals, output file and result.
Step(p, nextPc, nextLoc, nextWritten, nextRes) ==
    /\ pc' = [pc EXCEPT ![p] = nextPc]
    /\ loc' = [loc EXCEPT ![p] = nextLoc]
    /\ written' = [written EXCEPT ![p] = nextWritten]
    /\ res' = [res EXCEPT ![p] = nextRes]
    /\ UNCHANGED <<optionPrefix, optionTTL, sessionTTL, now, req>>

\* the method returns or throws: its locals are gone
Finish(p, result) == Step(p, "done", NoLoc, written[p], result)

\* #ensureInitialized: the CREATE ... IF NOT EXISTS statements succeed
EnsureInitializedOk(p) ==
    /\ pc[p] = "ddl"
    /\ schema' = schema \cup SchemaObjects
    /\ initialized' = TRUE
    /\ Step(p, FirstStep(req[p].op), loc[p], written[p], res[p])
    /\ UNCHANGED <<table, lastSave>>

\* the slip: the flag is set before the schema query is awaited
EnsureInitializedFailFlagSet(p) ==
    /\ pc[p] = "ddl"
    /\ initialized' = TRUE
    /\ Finish(p, Err("Failed to initialize database"))
    /\ UNCHANGED <<schema, table, lastSave>>

\* #ensureInitialized: the schema query fails; the catch block rethrows
EnsureInitializedFail(p) ==
    /\ pc[p] = "ddl"
    /\ Finish(p, Err("Failed to initialize database"))
    /\ UNCHANGED <<initialized, schema, table, lastSave>>

\* #ensureInitialized: the schema statements of this caller were sent while
\* the flag was false and another caller's have created the objects since.
\* CREATE ... IF NOT EXISTS tests for the object and then creates it: a
\* statement that tested before the other committed is rejected by the
\* catalog's unique index (unique_violation), one that tested after it skips
\* the creation (EnsureInitializedOk); the catch block rethrows.
EnsureInitializedDuplicate(p) ==
    /\ pc[p] = "ddl"
    /\ schema # {}
    /\ Finish(p, Err("Failed to initialize database: duplicate key value"))
    /\ UNCHANGED <<initialized, schema, table, lastSave>>

\* the statement of a method that is at the database
Statement(p, o) == pc[p] = "query" /\ req[p].op = o

SessionExistsResult(tbl, id, t) == ActiveRowsOf(tbl, id, t) # {}

sessionExists(p) ==
    /\ Statement(p, "sessionExists")
    /\ Finish(p, Ok(SessionExistsResult(table, getSessionId(req[p].session), now)))
    /\ UNCHANGED <<initialized, schema, table, lastSave>>

\* save's catch block, lines 103-108: the thrown error is told by its code alone
SaveCatch(code) ==
    IF code = "ENOENT"
    THEN Err("Session file not found")
    ELSE Err("Failed to save session")

\* save, lines 74-90: access and readFile of `${session}.zip`, the metadata
\* and the expiry; the archive is an input of the file system
SaveRead(p) ==
    /\ pc[p] = "read"
    /\ \E f \in Contents \cup {NoFile} :
          IF f = NoFile
          THEN Finish(p, SaveCatch("ENOENT"))
          ELSE Step(p, "upsert",
                    [sessionData |-> f,
                     metadata |-> SaveMetadata(req[p].session, f, now),
                     expiresAt |-> SaveExpiresAt(sessionTTL, now)],
                    written[p], res[p])
    /\ UNCHANGED <<initialized, schema, table, lastSave>>

\* save, lines 92-101: the upsert
SaveUpsert(p) ==
    /\ pc[p] = "upsert"
    /\ table' = Upsert(table, getSessionId(req[p].session), loc[p].sessionData,
                       loc[p].metadata, loc[p].expiresAt, now)
    /\ lastSave' = [lastSave EXCEPT ![getSessionId(req[p].session)] =
                       [at |-> loc[p].metadata.lastModified, data |-> loc[p].sessionData,
                        metaUpdated |-> FALSE]]
    /\ Finish(p, Ok("saved"))
    /\ UNCHANGED <<initialized, schema>>

\* save's query is rejected with some error code and the catch block has it
SaveFail(p) ==
    /\ pc[p] = "upsert"
    /\ \E code \in DbErrorCodes : Finish(p, SaveCatch(code))
    /\ UNCHANGED <<initialized, schema, table, lastSave>>

\* the slip: the SELECT without the expiry test, so an expired row is extracted
ExtractSelectAnyRow(p) ==
    /\ pc[p] = "select"
    /\ LET rows == RowsOf(table, getSessionId(req[p].session)) IN
          IF rows = {}
          THEN Finish(p, Err("Failed to extract session: not found or expired"))
          ELSE \E r \in rows :
                  Step(p, "update",
                       [sessionData |-> r.session_data, metadata |-> r.metadata,
                        expiresAt |-> r.expires_at],
                       r.session_data, res[p])
    /\ UNCHANGED <<initialized, schema, table, lastSave>>

\* extract, lines 116-127: the SELECT of the active row, then writeFile
ExtractSelect(p) ==
    /\ pc[p] = "select"
    /\ LET rows == ActiveRowsOf(table, getSessionId(req[p].session), now) IN
          IF rows = {}
          THEN Finish(p, Err("Failed to extract session: not found or expired"))
          ELSE \E r \in rows :
                  Step(p, "update",
                       [sessionData |-> r.session_data, metadata |-> r.metadata,
                        expiresAt |-> r.expires_at],
                       r.session_data, res[p])
    /\ UNCHANGED <<initialized, schema, table, lastSave>>

\* UPDATE ... SET updated_at = NOW() WHERE session_id = $1
TouchRows(tbl, id, t) ==
    {IF r.session_id = id THEN [r EXCEPT !.updated_at = t] ELSE r : r \in tbl}

\* extract, lines 130-135: the access-time refresh, then the metadata is returned
ExtractUpdate(p) ==
    /\ pc[p] = "update"
    /\ table' = TouchRows(table, getSessionId(req[p].session), now)
    /\ Finish(p, Ok(loc[p].metadata))
    /\ UNCHANGED <<initialized, schema, lastSave>>

\* the slip: delete given the expiry test the reads have
DeleteRowsActiveOnly(tbl, id) == tbl \ ActiveRowsOf(tbl, id, now)

\* DELETE FROM ... WHERE session_id = $1
DeleteRows(tbl, id) == tbl \ RowsOf(tbl, id)

delete(p) ==
    /\ Statement(p, "delete")
    /\ table' = DeleteRows(table, getSessionId(req[p].session))
    /\ lastSave' = [lastSave EXCEPT ![getSessionId(req[p].session)] =
                       IF RowsOf(table', getSessionId(req[p].session)) = {}
                       THEN NoSave ELSE @]
    /\ Finish(p, Ok(DeleteRows(table, getSessionId(req[p].session)) # table))
    /\ UNCHANGED <<initialized, schema>>

ListEntry(r) ==
    [session |-> StripPrefix(r.session_id), metadata |-> r.metadata,
     createdAt |-> r.created_at, updatedAt |-> r.updated_at, expiresAt |-> r.expires_at]

\* ORDER BY updated_at DESC: any order of the rows that never ascends
OrderedDesc(rows) ==
    {sq \in [1..Cardinality(rows) -> rows] :
        /\ \A i, j \in DOMAIN sq : i < j => sq[i].updated_at >= sq[j].updated_at
        /\ \A i, j \in DOMAIN sq : i # j => sq[i] # sq[j]}

ListedRows(tbl, t) == {r \in tbl : IsActive(r, t)}

listSessions(p) ==
    /\ Statement(p, "listSessions")
    /\ \E sq \in OrderedDesc(ListedRows(table, now)) :
          Finish(p, Ok([i \in DOMAIN sq |-> ListEntry(sq[i])]))
    /\ UNCHANGED <<initialized, schema, table, lastSave>>

MetadataRow(r) ==
    [metadata |-> r.metadata, created_at |-> r.created_at,
     updated_at |-> r.updated_at, expires_at |-> r.expires_at]

\* the result is a sequence: <<row>>, or <<>> for null
getSessionMetadata(p) ==
    /\ Statement(p, "getSessionMetadata")
    /\ LET rows == ActiveRowsOf(table, getSessionId(req[p].session), now) IN
          IF rows = {}
          THEN Finish(p, Ok(<<>>))
          ELSE \E r \in rows : Finish(p, Ok(<<MetadataRow(r)>>))
    /\ UNCHANGED <<initialized, schema, table, lastSave>>

\* the slip: the WHERE clause without the expiry test
UpdateWhereAnyRow(tbl, id, t) == RowsOf(tbl, id)

\* WHERE session_id = $1 AND (expires_at IS NULL OR expires_at > NOW())
UpdateWhere(tbl, id, t) == ActiveRowsOf(tbl, id, t)

\* the slip: a sliding expiry, the update also sets expires_at anew
UpdateMetadataRowsSliding(tbl, id, m, t) ==
    {IF r \in UpdateWhere(tbl, id, t)
     THEN [r EXCEPT !.metadata = JsonbConcat(r.metadata, m), !.updated_at = t,
                    !.expires_at = SaveExpiresAt(sessionTTL, t)]
     ELSE r : r \in tbl}

\* UPDATE ... SET metadata = metadata || $2, updated_at = NOW() WHERE ...
UpdateMetadataRows(tbl, id, m, t) ==
    {IF r \in UpdateWhere(tbl, id, t)
     THEN [r EXCEPT !.metadata = JsonbConcat(r.metadata, m), !.updated_at = t]
     ELSE r : r \in tbl}

updateSessionMetadata(p) ==
    /\ Statement(p, "updateSessionMetadata")
    /\ table' = UpdateMetadataRows(table, getSessionId(req[p].session), req[p].metadata, now)
    /\ lastSave' = [lastSave EXCEPT ![getSessionId(req[p].session)].metaUpdated =
                       @ \/ UpdateWhere(table, getSessionId(req[p].session), now) # {}]
    /\ Finish(p, Ok(UpdateWhere(table, getSessionId(req[p].session), now) # {}))
    /\ UNCHANGED <<initialized, schema>>

\* the slip: < for <=, so a row at its expiry instant is left behind
CleanupRowsStrict(tbl, t) == {r \in tbl : ~(r.expires_at # NULL /\ r.expires_at < t)}

\* DELETE FROM ... WHERE expires_at IS NOT NULL AND expires_at <= NOW()
CleanupRows(tbl, t) == {r \in tbl : ~IsExpired(r, t)}

cleanupExpiredSessions(p) ==
    /\ Statement(p, "cleanupExpiredSessions")
    /\ table' = CleanupRows(table, now)
    /\ lastSave' = [id \in DOMAIN lastSave |->
                      IF RowsOf(CleanupRows(table, now), id) = {} THEN NoSave ELSE lastSave[id]]
    /\ Finish(p, Ok(Cardinality(table \ CleanupRows(table, now))))
    /\ UNCHANGED <<initialized, schema>>

\* the slip: total_sessions given the filter of the active rows
StatsOfActiveTotal(tbl, t) ==
    [total_sessions |-> Cardinality({r \in tbl : IsActive(r, t)}),
     active_sessions |-> Cardinality({r \in tbl : IsActive(r, t)}),
     expired_sessions |-> Cardinality({r \in tbl : IsExpired(r, t)})]

\* SELECT COUNT(*), COUNT(*) FILTER (WHERE ...), COUNT(*) FILTER (WHERE ...)
StatsOf(tbl, t) ==
    [total_sessions |-> Cardinality(tbl),
     active_sessions |-> Cardinality({r \in tbl : IsActive(r, t)}),
     expired_sessions |-> Cardinality({r \in tbl : IsExpired(r, t)})]

getStats(p) ==
    /\ Statement(p, "getStats")
    /\ Finish(p, Ok(StatsOf(table, now)))
    /\ UNCHANGED <<initialized, schema, table, lastSave>>

Tick ==
    /\ now < MaxTime
    /\ now' = now + 1
    /\ UNCHANGED <<optionPrefix, optionTTL, initialized, sessionTTL, schema, table, lastSave, pc, req, loc, written, res>>

Next ==
    \/ \E p \in Callers : Call(p)
    \/ \E p \in Callers : EnsureInitializedOk(p)
    \/ \E p \in Callers : EnsureInitializedFail(p)
    \/ \E p \in Callers : EnsureInitializedDuplicate(p)
    \/ \E p \in Callers : sessionExists(p)
    \/ \E p \in Callers : SaveRead(p)
    \/ \E p \in Callers : SaveUpsert(p)
    \/ \E p \in Callers : SaveFail(p)
    \/ \E p \in Callers : ExtractSelect(p)
    \/ \E p \in Callers : ExtractUpdate(p)
    \/ \E p \in Callers : delete(p)
    \/ \E p \in Callers : listSessions(p)
    \/ \E p \in Callers : getSessionMetadata(p)
    \/ \E p \in Callers : updateSessionMetadata(p)
    \/ \E p \in Callers : cleanupExpiredSessions(p)
    \/ \E p \in Callers : getStats(p)
    \/ Tick

Spec == Init /\ [][Next]_vars

\* ------------------------------------------------------------ properties
SessionIds == {getSessionId(s) : s \in SessionNames}

\* caller p's statement for method o runs in this step and answers
Answers(p, o) ==
    /\ pc[p] = "query"
    /\ req[p].op = o
    /\ pc'[p] = "done"
    /\ res'[p].kind = "ok"

\* extract's SELECT runs in this step
Selects(p) == pc[p] = "select" /\ pc'[p] # "select"

\* a caller that has used the store alone so far
Alone(p) == \A q \in Callers \ {p} : pc[q] = "idle"

\* the row under id, if there is one, is within ttl seconds of the clock
\* reading of the save that wrote it (ttl = NULL: there is no limit)
WithinTTL(id, t, ttl) ==
    /\ RowsOf(table, id) # {}
    /\ ttl = NULL \/ t < lastSave[id].at + ttl

\* the four reads report the sessions that are within ttl, and a row leaves
\* the table only by delete of its name or by cleanupExpiredSessions
TTLFiltering(ttl) ==
    /\ \A p \in Callers :
          LET id == getSessionId(req[p].session) IN
          /\ Answers(p, "sessionExists") => (res'[p].val <=> WithinTTL(id, now, ttl))
          /\ Answers(p, "getSessionMetadata") =>
                ((res'[p].val # <<>>) <=> WithinTTL(id, now, ttl))
          /\ Selects(p) => ((pc'[p] = "update") <=> WithinTTL(id, now, ttl))
          /\ Answers(p, "listSessions") =>
                \A s \in SessionNames :
                   (\E i \in DOMAIN res'[p].val : res'[p].val[i].session = s)
                      <=> WithinTTL(getSessionId(s), now, ttl)
    /\ \A id \in SessionIds :
          (RowsOf(table, id) # {} /\ RowsOf(table', id) = {}) =>
             \E p \in Callers :
                \/ Answers(p, "delete") /\ getSessionId(req[p].session) = id
                \/ Answers(p, "cleanupExpiredSessions")

\* C1 as stated: with sessionTTL = T given to the constructor, a session saved
\* at t0 is reported by sessionExists, extract, listSessions and
\* getSessionMetadata at every time < t0+T and as absent at every time
\* >= t0+T, for every T; with no sessionTTL it is always reported.
C1_TTLFiltering_AsStated == [][TTLFiltering(optionTTL)]_vars

\* C1, amended: the same for every T > 0; with no sessionTTL given, or with
\* sessionTTL = 0, a saved session is always reported.  A row leaves the table
\* only by delete of its name or by cleanupExpiredSessions.
C1_TTLFiltering ==
    [][TTLFiltering(IF optionTTL = 0 THEN NULL ELSE optionTTL)]_vars

\* C1 witness: a caller alone saved a session under a TTL and then found it
\* absent, while its row is still in the table.
C1_Witness ==
    \E p \in Callers :
       /\ Alone(p)
       /\ optionTTL > 0
       /\ pc[p] = "done"
       /\ req[p].op = "sessionExists"
       /\ res[p].kind = "ok"
       /\ res[p].val = FALSE
       /\ RowsOf(table, getSessionId(req[p].session)) # {}

\* C2: round trip.  When extract finds the session, the bytes it writes to the
\* destination are the archive bytes of the save that wrote the row, and,
\* no updateSessionMetadata having come between that save and the extract,
\* the metadata it returns has size equal to the byte length of that archive.
C2_RoundTrip ==
    [][\A p \in Callers :
          LET id == getSessionId(req[p].session) IN
          /\ (Selects(p) /\ pc'[p] = "update") =>
                /\ written'[p] = lastSave[id].data
                /\ ~lastSave[id].metaUpdated =>
                      loc'[p].metadata.size = Len(lastSave[id].data)
          /\ (pc[p] = "update" /\ pc'[p] = "done" /\ res'[p].kind = "ok") =>
                /\ res'[p].val = loc[p].metadata
                /\ written'[p] = written[p]
      ]_vars

\* C2 witness: a caller alone saved the two-byte archive and extracted it.
C2_Witness ==
    \E p \in Callers :
       /\ Alone(p)
       /\ pc[p] = "done"
       /\ req[p].op = "extract"
       /\ res[p].kind = "ok"
       /\ written[p] = <<7, 8>>
       /\ res[p].val.size = 2

\* C3: save on a name that has a row leaves exactly one row for the name,
\* holding the archive bytes of this save, with updated_at strictly greater
\* than before whenever the earlier write was over when this save began; and
\* no state has two rows for one name.
C3_Upsert ==
    /\ [](\A id \in SessionIds : Cardinality(RowsOf(table, id)) <= 1)
    /\ [][\A p \in Callers :
             LET id == getSessionId(req[p].session) IN
             (pc[p] = "upsert" /\ pc'[p] = "done" /\ res'[p].kind = "ok") =>
                /\ Cardinality(RowsOf(table', id)) = 1
                /\ \A r \in RowsOf(table', id) : r.session_data = loc[p].sessionData
                /\ \A old \in RowsOf(table, id) : \A r \in RowsOf(table', id) :
                      /\ r.updated_at >= old.updated_at
                      /\ old.updated_at < loc[p].metadata.lastModified =>
                            r.updated_at > old.updated_at
         ]_vars

\* C3 witness: a caller alone saved a name twice; the row holds the second
\* archive and was updated after it was created.
C3_Witness ==
    \E p \in Callers :
       /\ Alone(p)
       /\ pc[p] = "done"
       /\ req[p].op = "save"
       /\ res[p].kind = "ok"
       /\ \E r \in RowsOf(table, getSessionId(req[p].session)) :
             /\ r.created_at < r.metadata.lastModified
             /\ r.created_at < r.updated_at
             /\ r.session_data = <<7, 8>>
       /\ Cardinality(table) = 1

\* C4: updateSessionMetadata on an active session stores the key-wise union
\* of the stored metadata and the supplied map: every supplied key with the
\* supplied value, every other stored key with its stored value, no other key.
C4_MetadataMerge ==
    [][\A p \in Callers :
          LET id == getSessionId(req[p].session)
              m == req[p].metadata
          IN
          Answers(p, "updateSessionMetadata") =>
             \A old \in ActiveRowsOf(table, id, now) :
                /\ RowsOf(table', id) # {}
                /\ \A r \in RowsOf(table', id) :
                      /\ DOMAIN r.metadata = DOMAIN old.metadata \cup DOMAIN m
                      /\ \A k \in DOMAIN m : r.metadata[k] = m[k]
                      /\ \A k \in DOMAIN old.metadata \ DOMAIN m :
                            r.metadata[k] = old.metadata[k]
      ]_vars

\* C4 witness: metadata holding a:1, b:2 was merged with {b:3, c:4}.
C4_Witness ==
    \E p \in Callers :
       /\ pc[p] = "done"
       /\ req[p].op = "updateSessionMetadata"
       /\ req[p].metadata = ("b" :> 3) @@ ("c" :> 4)
       /\ res[p].kind = "ok"
       /\ res[p].val = TRUE
       /\ \E r \in RowsOf(table, getSessionId(req[p].session)) :
             /\ {"a", "b", "c", "size"} \subseteq DOMAIN r.metadata
             /\ r.metadata["a"] = 1
             /\ r.metadata["b"] = 3
             /\ r.metadata["c"] = 4

\* C5: updateSessionMetadata returns true exactly when the name has a row that
\* is active when the statement runs; when it returns false no row changes.
C5_UpdateOnlyActive ==
    [][\A p \in Callers :
          LET id == getSessionId(req[p].session) IN
          Answers(p, "updateSessionMetadata") =>
             /\ res'[p].val <=>
                   \E r \in table :
                      /\ r.session_id = id
                      /\ r.expires_at = NULL \/ r.expires_at > now
             /\ ~res'[p].val => table' = table
             /\ \A r \in table : r.session_id # id => r \in table'
      ]_vars

\* C5 witness: updateSessionMetadata returned false for a session whose
\* expired row is still in the table.
C5_Witness ==
    \E p \in Callers :
       /\ Alone(p)
       /\ pc[p] = "done"
       /\ req[p].op = "updateSessionMetadata"
       /\ res[p].kind = "ok"
       /\ res[p].val = FALSE
       /\ RowsOf(table, getSessionId(req[p].session)) # {}

\* C6: delete removes the row of the name whether or not it has expired and
\* returns true exactly when there was one; every other row stays as it was;
\* and a name without a row gets one again only by a save of that name.
C6_DeleteIgnoresTTL ==
    [][/\ \A p \in Callers :
            LET id == getSessionId(req[p].session) IN
            Answers(p, "delete") =>
               /\ res'[p].val <=> (\E r \in table : r.session_id = id)
               /\ table' = {r \in table : r.session_id # id}
       /\ \A id \in SessionIds :
            (RowsOf(table, id) = {} /\ RowsOf(table', id) # {}) =>
               \E p \in Callers :
                  /\ pc[p] = "upsert"
                  /\ pc'[p] = "done"
                  /\ req[p].op = "save"
                  /\ getSessionId(req[p].session) = id
       /\ \A p \in Callers :
            (Answers(p, "sessionExists") /\ res'[p].val) =>
               RowsOf(table, getSessionId(req[p].session)) # {}
      ]_vars

\* C6 witness: under a TTL of one second a caller alone saved a session and
\* then, its row having expired, deleted it and was told true.
C6_Witness ==
    \E p \in Callers :
       /\ Alone(p)
       /\ sessionTTL = 1
       /\ pc[p] = "done"
       /\ req[p].op = "delete"
       /\ res[p].kind = "ok"
       /\ res[p].val = TRUE
       /\ table = {}

\* C7: cleanupExpiredSessions removes exactly the rows whose expires_at is
\* non-null and <= now, returns how many they were and leaves the other rows
\* as they were; no expired row is left for a second call to remove.
C7_CleanupCount ==
    [][\A p \in Callers :
          Answers(p, "cleanupExpiredSessions") =>
             LET gone == {r \in table : r.expires_at # NULL /\ r.expires_at <= now} IN
             /\ table' = table \ gone
             /\ res'[p].val = Cardinality(gone)
             /\ Cardinality({r \in table' : r.expires_at # NULL /\ r.expires_at <= now}) = 0
      ]_vars

\* C7 witness: a caller alone saved two sessions; cleanup removed the one that
\* had expired, returned 1, and the active one is still there.
C7_Witness ==
    \E p \in Callers :
       /\ Alone(p)
       /\ pc[p] = "done"
       /\ req[p].op = "cleanupExpiredSessions"
       /\ res[p].kind = "ok"
       /\ res[p].val = 1
       /\ Cardinality(table) = 1

C9_StatsTotals ==
    /\ [](LET st == StatsOf(table, now) IN
             st.active_sessions + st.expired_sessions <= st.total_sessions)
    /\ [][\A p \in Callers :
             Answers(p, "getStats") =>
                LET st == res'[p].val
                    nulls == {r \in table : r.expires_at = NULL}
                IN
                /\ st.total_sessions = Cardinality(table)
                /\ st.active_sessions + st.expired_sessions <= st.total_sessions
                /\ st.active_sessions >= Cardinality(nulls)
                /\ st.expired_sessions <= Cardinality(table \ nulls)
                /\ st.active_sessions >= 0
                /\ st.expired_sessions >= 0
         ]_vars

\* C9 witness: getStats answered with two rows in total, one of them expired.
C9_Witness ==
    \E p \in Callers :
       /\ pc[p] = "done"
       /\ req[p].op = "getStats"
       /\ res[p].kind = "ok"
       /\ res[p].val.total_sessions = 2
       /\ res[p].val.expired_sessions = 1
       /\ res[p].val.active_sessions = 1

\* C10: the flag goes from false to true only in a step in which a schema
\* query succeeded; a failed schema query throws, and does not set the flag;
\* a method called while the flag is false sends the schema query, a method
\* called while it is true never does; the flag is never reset.
C10_LazyInit ==
    [][/\ (~initialized /\ initialized') =>
             \E p \in Callers :
                /\ pc[p] = "ddl"
                /\ pc'[p] = FirstStep(req[p].op)
                /\ res'[p].kind # "error"
                /\ SchemaObjects \subseteq schema'
       /\ \A p \in Callers :
             (pc[p] = "ddl" /\ pc'[p] = "done") =>
                /\ res'[p] \in {Err("Failed to initialize database"),
                               Err("Failed to initialize database: duplicate key value")}
                /\ initialized' = initialized
                /\ schema' = schema
       /\ \A p \in Callers :
             (pc[p] \in {"idle", "done"} /\ pc'[p] \notin {"idle", "done"}) =>
                ((pc'[p] = "ddl") <=> ~initialized)
       /\ \A p \in Callers : (pc[p] # "ddl" /\ pc'[p] = "ddl") => pc[p] \in {"idle", "done"}
       /\ initialized => initialized'
      ]_vars

\* C10 witness: the schema query of a caller alone failed: the caller has the
\* error, the flag is false and there is no schema.
C10_Witness ==
    \E p \in Callers :
       /\ Alone(p)
       /\ pc[p] = "done"
       /\ res[p] = Err("Failed to initialize database")
       /\ ~initialized
       /\ schema = {}

\* C11: extract of a name that has no active row when its SELECT runs (never
\* saved, deleted, or expired) throws the "not found or expired" error, writes
\* nothing to the destination path and leaves every row of the table as it
\* was, updated_at included; the method is over, so it does nothing later.
C11_ExtractMissing ==
    [][\A p \in Callers :
          LET id == getSessionId(req[p].session) IN
          (Selects(p) /\ ~\E r \in table :
                             /\ r.session_id = id
                             /\ r.expires_at = NULL \/ r.expires_at > now) =>
             /\ pc'[p] = "done"
             /\ res'[p] = Err("Failed to extract session: not found or expired")
             /\ written'[p] = NoFile
             /\ table' = table
      ]_vars

\* C11 witness: under a TTL a caller alone saved a session and, the row having
\* expired, went to extract it: it has the error, nothing was written and the
\* expired row is as the save left it.
C11_Witness ==
    \E p \in Callers :
       /\ Alone(p)
       /\ pc[p] = "done"
       /\ req[p].op = "extract"
       /\ res[p] = Err("Failed to extract session: not found or expired")
       /\ written[p] = NoFile
       /\ \E r \in RowsOf(table, getSessionId(req[p].session)) :
             /\ r.expires_at # NULL
             /\ r.expires_at <= now
             /\ r.updated_at = r.created_at

\* C12: save throws the "Session file not found" error exactly when the
\* archive of the name is absent, and then no row is inserted or changed;
\* every failure of save's query at the database is thrown as "Failed to
\* save session" and never as archive-not-found.
C12_SaveErrors ==
    [][\A p \in Callers :
          /\ (pc[p] = "read" /\ pc'[p] = "done") =>
                /\ res'[p] = Err("Session file not found")
                /\ table' = table
          /\ (/\ req[p].op = "save"
              /\ pc[p] # "done"
              /\ res'[p] = Err("Session file not found")) => pc[p] = "read"
          /\ (/\ req[p].op = "save"
              /\ pc[p] = "upsert"
              /\ pc'[p] = "done"
              /\ res'[p].kind = "error") =>
                /\ res'[p] = Err("Failed to save session")
                /\ table' = table
      ]_vars

\* the prefix of the storage keys as the option has it
KeyPrefix == IF optionPrefix = <<>> THEN Prefix ELSE optionPrefix

\* C13: with sessionIdPrefix = P given to the constructor the storage key of a
\* session is P followed by its name, "whatsapp-" followed by its name when
\* none is given: a save leaves its archive in the row under that key; and
\* listSessions returns the names the sessions were saved by.
C13_CustomPrefix ==
    [][\A p \in Callers :
          /\ (pc[p] = "upsert" /\ pc'[p] = "done" /\ res'[p].kind = "ok") =>
                \E r \in table' :
                   /\ r.session_id = KeyPrefix \o req[p].session
                   /\ r.session_data = loc[p].sessionData
          /\ Answers(p, "listSessions") =>
                {res'[p].val[i].session : i \in DOMAIN res'[p].val} =
                   {s \in SessionNames :
                       \E r \in table :
                          /\ r.session_id = getSessionId(s)
                          /\ r.expires_at = NULL \/ r.expires_at > now}
      ]_vars

\* C14: the updated_at of a session's row never decreases, whatever the
\* operations and their interleaving; and a save, an updateSessionMetadata
\* that returns true and an extract that returns leave the row of their
\* session with updated_at equal to the time at which their statement ran.
C14_UpdatedAtMonotonic ==
    [][/\ \A r \in table : \A r2 \in table' :
             r.session_id = r2.session_id => r.updated_at <= r2.updated_at
       /\ \A p \in Callers :
             LET id == getSessionId(req[p].session) IN
             /\ (pc[p] = "upsert" /\ pc'[p] = "done" /\ res'[p].kind = "ok") =>
                   /\ RowsOf(table', id) # {}
                   /\ \A r \in RowsOf(table', id) : r.updated_at = now
             /\ (Answers(p, "updateSessionMetadata") /\ res'[p].val) =>
                   /\ RowsOf(table', id) # {}
                   /\ \A r \in RowsOf(table', id) : r.updated_at = now
             /\ (pc[p] = "update" /\ pc'[p] = "done" /\ res'[p].kind = "ok") =>
                   \A r \in RowsOf(table', id) : r.updated_at = now
      ]_vars

\* C14 witness: a caller alone saved a session and later extracted it; the
\* row's updated_at is the time of the extract, after its creation.
C14_Witness ==
    \E p \in Callers :
       /\ Alone(p)
       /\ pc[p] = "done"
       /\ req[p].op = "extract"
       /\ res[p].kind = "ok"
       /\ \E r \in RowsOf(table, getSessionId(req[p].session)) :
             /\ r.updated_at = now
             /\ r.updated_at > r.created_at
             /\ r.updated_at > r.metadata.lastModified

\* the operations that respect the TTL
TTLOps == {"sessionExists", "extract", "listSessions", "getSessionMetadata",
           "updateSessionMetadata"}

\* caller p's method runs one of its statements in this step
Executes(p) == pc[p] \in {"query", "select", "update"} /\ pc'[p] # pc[p]

\* C15: every statement of sessionExists, extract, listSessions,
\* getSessionMetadata and updateSessionMetadata applies the active predicate
\* (expires_at is null or > now): what it returns is taken from rows active
\* when it runs, and it modifies no column of a row that is expired when it
\* runs, the updated_at refresh of extract included.
C15_ActiveOnly ==
    [][\A p \in Callers :
          LET id == getSessionId(req[p].session)
              active == {r \in table : r.expires_at = NULL \/ r.expires_at > now}
          IN
          /\ (Answers(p, "sessionExists") /\ res'[p].val) =>
                \E r \in active : r.session_id = id
          /\ (Selects(p) /\ pc'[p] = "update") =>
                \E r \in active :
                   /\ r.session_id = id
                   /\ written'[p] = r.session_data
                   /\ loc'[p].metadata = r.metadata
          /\ Answers(p, "listSessions") =>
                \A i \in DOMAIN res'[p].val : \E r \in active :
                   /\ r.session_id = getSessionId(res'[p].val[i].session)
                   /\ res'[p].val[i].metadata = r.metadata
          /\ (Answers(p, "getSessionMetadata") /\ res'[p].val # <<>>) =>
                \E r \in active :
                   /\ r.session_id = id
                   /\ res'[p].val[1].metadata = r.metadata
          /\ (req[p].op \in TTLOps /\ Executes(p)) =>
                \A r \in table \ active : r \in table'
      ]_vars

\* C16: an operation reads and writes a row in one atomic statement, so no
\* save, delete, cleanupExpiredSessions, updateSessionMetadata or passing of
\* the expiry time takes effect between its read and its write; for extract,
\* the row whose updated_at is refreshed is there, with the archive, the
\* metadata and the expiry it had when its blob was read, and still active.
C16_SingleStatement ==
    [][\A p \in Callers :
          (pc[p] = "update" /\ pc'[p] = "done") =>
             \E r \in table :
                /\ r.session_id = getSessionId(req[p].session)
                /\ r.session_data = loc[p].sessionData
                /\ r.metadata = loc[p].metadata
                /\ r.expires_at = loc[p].expiresAt
                /\ r.expires_at = NULL \/ r.expires_at > now
      ]_vars

\* C17: operations started together while the flag is false may each send
\* the create-if-not-exists statements; none of them fails because the
\* statements were executed twice; the schema holds the table and the two
\* indexes, each once; an operation whose schema statements went through
\* goes on to its query with the flag true, and the flag stays true.
C17_ConcurrentInit ==
    /\ [](schema \in {{}, SchemaObjects})
    /\ [][/\ \A p \in Callers :
               (pc[p] = "ddl" /\ pc'[p] = "done") =>
                  res'[p] # Err("Failed to initialize database: duplicate key value")
          /\ \A p \in Callers :
               (pc[p] = "ddl" /\ pc'[p] \notin {"ddl", "done"}) =>
                  /\ pc'[p] = FirstStep(req[p].op)
                  /\ schema' = SchemaObjects
                  /\ initialized'
          /\ initialized => initialized'
         ]_vars

\* C18: created_at is set when the row is inserted and no operation changes
\* it afterwards: a save on a name that has a row, active or expired, an
\* updateSessionMetadata and an extract leave it as it was; and in every
\* state created_at <= updated_at for every row.
C18_CreatedAtFixed ==
    /\ [](\A r \in table : r.created_at <= r.updated_at)
    /\ [][/\ \A r \in table : \A r2 \in table' :
                r.session_id = r2.session_id => r2.created_at = r.created_at
          /\ \A r2 \in table' :
                RowsOf(table, r2.session_id) = {} => r2.created_at = now
         ]_vars

\* C18 witness: under a TTL of one second a caller alone saved a session and,
\* the row having expired, saved it again: the row has the created_at of the
\* first save and the updated_at of the second.
C18_Witness ==
    \E p \in Callers :
       /\ Alone(p)
       /\ sessionTTL = 1
       /\ pc[p] = "done"
       /\ req[p].op = "save"
       /\ res[p].kind = "ok"
       /\ \E r \in RowsOf(table, getSessionId(req[p].session)) :
             /\ r.created_at < r.updated_at
             /\ r.created_at + 1 <= r.metadata.lastModified
             /\ r.expires_at > now

\* the metadata map a caller's statement brings to the row of id in this step
Incoming(p, id) ==
    IF getSessionId(req[p].session) # id THEN NoMetadata
    ELSE IF pc[p] = "upsert" /\ pc'[p] = "done" THEN loc[p].metadata
    ELSE IF Answers(p, "updateSessionMetadata") THEN req[p].metadata
    ELSE NoMetadata

\* C19: no operation replaces the metadata of an existing row as a whole:
\* every change (save on a name that has a row, updateSessionMetadata) is a
\* shallow merge, so a key of the stored metadata is still there after the
\* step, with its value unless the incoming map names the key, for as long
\* as the row exists.
C19_MetadataNeverReplaced ==
    [][\A r \in table : \A r2 \in table' :
          r.session_id = r2.session_id =>
             \A k \in DOMAIN r.metadata :
                /\ k \in DOMAIN r2.metadata
                /\ r2.metadata[k] # r.metadata[k] =>
                      \E p \in Callers :
                         /\ k \in DOMAIN Incoming(p, r.session_id)
                         /\ r2.metadata[k] = Incoming(p, r.session_id)[k]
      ]_vars

\* C20: at every instant each row is exactly one of active (the predicate of
\* the reads) and expired (the predicate of cleanupExpiredSessions and
\* getStats), a row with expires_at = now being expired; so getStats always
\* answers active_sessions + expired_sessions = total_sessions, and right
\* after cleanupExpiredSessions every remaining row is active and the
\* expired count is 0.
C20_Partition ==
    /\ [](\A r \in table :
            /\ IsActive(r, now) # IsExpired(r, now)
            /\ r.expires_at = now => IsExpired(r, now))
    /\ [][\A p \in Callers :
             /\ Answers(p, "getStats") =>
                   /\ res'[p].val.active_sessions + res'[p].val.expired_sessions
                         = res'[p].val.total_sessions
                   /\ res'[p].val.total_sessions = Cardinality(table)
             /\ Answers(p, "cleanupExpiredSessions") =>
                   /\ \A r \in table' : IsActive(r, now)
                   /\ \A r \in table' : \E s \in SessionNames :
                         SessionExistsResult(table', getSessionId(s), now)
                            /\ r.session_id = getSessionId(s)
                   /\ StatsOf(table', now).expired_sessions = 0
         ]_vars

\* C20 witness: a caller alone asked getStats at the very instant at which
\* the only row expires, and the row was counted as expired.
C20_Witness ==
    \E p \in Callers :
       /\ Alone(p)
       /\ pc[p] = "done"
       /\ req[p].op = "getStats"
       /\ res[p].kind = "ok"
       /\ res[p].val = [total_sessions |-> 1, active_sessions |-> 0, expired_sessions |-> 1]
       /\ \E r \in table : r.expires_at = now

\* the rows of tbl2 are those of tbl, the rows under id differing at most in
\* the columns cols
SameBut(tbl, tbl2, id, cols) ==
    /\ {r.session_id : r \in tbl} = {r.session_id : r \in tbl2}
    /\ \A r \in tbl : r.session_id # id => r \in tbl2
    /\ \A r \in tbl : \A r2 \in tbl2 :
          r.session_id = r2.session_id =>
             \A c \in DOMAIN r \ cols : r2[c] = r[c]

\* C21: only save changes the expires_at or the session_data of a row.  The
\* statements of extract change nothing but updated_at of the row of the
\* extracted session, updateSessionMetadata nothing but metadata and
\* updated_at of the row it names, and sessionExists, listSessions,
\* getSessionMetadata and getStats change no row; so reading a session or
\* updating its metadata never moves its expiry.
C21_Frame ==
    [][/\ \A r \in table : \A r2 \in table' :
            (/\ r.session_id = r2.session_id
             /\ r2.expires_at # r.expires_at \/ r2.session_data # r.session_data) =>
               \E p \in Callers :
                  /\ req[p].op = "save"
                  /\ getSessionId(req[p].session) = r.session_id
                  /\ pc[p] = "upsert"
                  /\ pc'[p] = "done"
       /\ \A p \in Callers :
            LET id == getSessionId(req[p].session) IN
            /\ Selects(p) => table' = table
            /\ (pc[p] = "update" /\ pc'[p] = "done") =>
                  SameBut(table, table', id, {"updated_at"})
            /\ Answers(p, "updateSessionMetadata") =>
                  SameBut(table, table', id, {"metadata", "updated_at"})
            /\ \A o \in {"sessionExists", "listSessions", "getSessionMetadata",
                          "getStats"} :
                  Answers(p, o) => table' = table
      ]_vars

\* C21 witness: under a TTL of two seconds a caller alone saved a session and
\* then updated its metadata: the row has the merged keys and a later
\* updated_at, and the expiry the save gave it.
C21_Witness ==
    \E p \in Callers :
       /\ Alone(p)
       /\ sessionTTL = 2
       /\ pc[p] = "done"
       /\ req[p].op = "updateSessionMetadata"
       /\ res[p].kind = "ok"
       /\ res[p].val = TRUE
       /\ \E r \in RowsOf(table, getSessionId(req[p].session)) :
             /\ "a" \in DOMAIN r.metadata
             /\ r.updated_at > r.created_at
             /\ r.expires_at = r.metadata.lastModified + 2
             /\ r.expires_at < r.updated_at + 2

====
